---- MODULE Spec2Model ----
(***************************************************************************)
(* dream-machine: the generation-progress relay.                           *)
(*                                                                         *)
(* The repository holds several snapshots of its two API routes:           *)
(*   POST /api/generate                                                    *)
(*     "run1"  src/src/app/api/generate/route.ts   1-69   (replicate.run)  *)
(*     "run2"  src/src/app/api/generate/route.ts  70-183  (replicate.run)  *)
(*     "poll"  src/unnamed/part_002  (predictions.create +                 *)
(*             waitForPrediction)                                          *)
(*     "relay" the snapshot that generates a generation id and writes the  *)
(*             progress store; its callers (page.tsx, data.generationId)   *)
(*             and the store (progress/utils.ts) are in the sources, the   *)
(*             route itself is not: it is modelled from spec.md 4.2/4.3    *)
(*   GET /api/progress                                                     *)
(*     "p001"  src/unnamed/part_001  (closes on complete, deletes entry)   *)
(*     "p000"  src/unnamed/part_000 895-943 (closes on complete or error)  *)
(* A deployment runs one snapshot of each route: genImpl and streamImpl    *)
(* are chosen in Init and never change.                                    *)
(*                                                                         *)
(* Each action is one run-to-completion segment of an async handler: the   *)
(* code between two awaits (or one timer callback).                        *)
(***************************************************************************)
EXTENDS Integers, Sequences, FiniteSets, TLC

\* ------------------------------------------------------------------ bounds
NumReq == 1
NumStreams == 2
MaxCalls == 3

\* ------------------------------------------------------- program constants
maxAttempts == 30
StreamIntervalSec == 1
CleanupDelaySec == 5

Req == 1..NumReq
Streams == 1..NumStreams

\* --------------------------------------------------------------- JS values
\* A JavaScript value: k is its kind, v its content (the characters of a
\* string, the elements of an array, Object.values of an object).
Undef == [k |-> "undefined", v |-> <<>>]
Num == [k |-> "number", v |-> <<>>]
Func == [k |-> "function", v |-> <<>>]
Str(chars) == [k |-> "string", v |-> chars]
Arr(elems) == [k |-> "array", v |-> elems]
Obj(vals) == [k |-> "object", v |-> vals]

\* !x for the kinds above
Truthy(x) ==
    CASE x.k = "undefined" -> FALSE
      [] x.k = "string" -> Len(x.v) > 0
      [] x.k = "number" -> FALSE        \* the only number of the model is 0
      [] OTHER -> TRUE

\* String.prototype.startsWith
startsWith(chars, prefix) ==
    /\ Len(chars) >= Len(prefix)
    /\ \A i \in 1..Len(prefix) : chars[i] = prefix[i]

http == <<"h", "t", "t", "p">>

\* Flatten a sequence of sequences (urls.push(...xs) over the items)
RECURSIVE Concat(_)
Concat(ss) == IF ss = <<>> THEN <<>> ELSE Head(ss) \o Concat(Tail(ss))

\* ------------------------------------------------------------ test values
url1 == Str(<<"h", "t", "t", "p", ":", "1">>)
url2 == Str(<<"h", "t", "t", "p", "s", ":", "2">>)
plain == Str(<<"x", ".", "p", "n", "g">>)
emptyStr == Str(<<>>)

\* What the prediction service may hand back as a prediction's output
Outputs ==
    { Undef,
      Arr(<<>>),
      Arr(<<url1>>),
      Arr(<<plain, url1, emptyStr, Num, url2>>),
      Arr(<<plain>>),
      Obj(<<url1, Arr(<<plain, url2>>)>>),
      url1 }

\* The statuses a prediction may report
ExtStatus == {"starting", "processing", "succeeded", "failed", "canceled"}

\* Request fields: absent, empty or present
Images == {Undef, emptyStr, Str(<<"d", "a", "t", "a">>)}
Transformations ==
    { Undef, emptyStr,
      Str(<<"s", "a", "r", "g", "e", "n", "t">>),
      Str(<<"w", "a", "t", "e", "r">>),
      Str(<<"t", "o", "S", "t", "r", "i", "n", "g">>) }

\* ------------------------------------------------- generate route: lookups
\* Own keys of modelMap and of promptMap (the same five in every snapshot)
TransformationKeys ==
    { <<"s", "a", "r", "g", "e", "n", "t">>,
      <<"s", "u", "r", "r", "e", "a", "l", "i", "s", "t">>,
      <<"c", "o", "l", "o", "r", "-", "p", "a", "l", "e", "t", "t", "e">>,
      <<"b", "a", "c", "k", "g", "r", "o", "u", "n", "d">>,
      <<"c", "o", "m", "p", "o", "s", "i", "t", "i", "o", "n">> }

\* Both maps are object literals: a property read that misses the own keys
\* goes on to Object.prototype, whose members are functions.
ObjectPrototypeKeys ==
    { <<"t", "o", "S", "t", "r", "i", "n", "g">>,
      <<"v", "a", "l", "u", "e", "O", "f">>,
      <<"c", "o", "n", "s", "t", "r", "u", "c", "t", "o", "r">> }

\* modelMap[transformation]
modelMap(t) ==
    IF t.k = "string" /\ t.v \in TransformationKeys THEN Str(<<"s", "d", "x", "l">>)
    ELSE IF t.k = "string" /\ t.v \in ObjectPrototypeKeys THEN Func
    ELSE Undef

\* promptMap[transformation]
promptMap(t) ==
    IF t.k = "string" /\ t.v \in TransformationKeys THEN Str(<<"T", "r", "a", "n", "s">>)
    ELSE IF t.k = "string" /\ t.v \in ObjectPrototypeKeys THEN Func
    ELSE Undef

\* the prediction service takes a job only under a model version string
Accepts(transformation) == modelMap(transformation).k = "string"

\* && for ||
MissingFields_both(image, transformation) == ~Truthy(image) /\ ~Truthy(transformation)

\* if (!image || !transformation)
MissingFields(image, transformation) == ~Truthy(image) \/ ~Truthy(transformation)

\* if (!modelVersion || !prompt)
InvalidTransformation(transformation) ==
    ~Truthy(modelMap(transformation)) \/ ~Truthy(promptMap(transformation))

\* ------------------------------------------- generate route: output checks
\* run2: output.filter(url => typeof url === 'string' && url.length > 0)
validOutputs(output) ==
    SelectSeq(output.v, LAMBDA u : u.k = "string" /\ Len(u.v) > 0)

\* poll: the filter of the Array.isArray branch
filterHttp(output) ==
    SelectSeq(output.v, LAMBDA u : u.k = "string" /\ startsWith(u.v, http))

\* poll: findUrls, the walk of the object branch
RECURSIVE findUrls(_)
findUrls(obj) ==
    IF obj.k = "string" /\ startsWith(obj.v, http) THEN <<obj>>
    ELSE IF obj.k \in {"array", "object"}
         THEN Concat([i \in 1..Len(obj.v) |-> findUrls(obj.v[i])])
         ELSE <<>>

\* poll: imageUrls
imageUrls(output) ==
    IF output.k = "array" THEN filterHttp(output)
    ELSE IF output.k = "object" THEN findUrls(output)
    ELSE <<>>

\* ---------------------------------------------------------------- records
NoResp == [status |-> 0, error |-> "", message |-> "", images |-> Undef, generationId |-> 0]

Resp400(err) == [NoResp EXCEPT !.status = 400, !.error = err]
\* a 500 that drops the failure's message
Resp500_noMessage(err, msg) == [NoResp EXCEPT !.status = 500, !.error = err]

Resp500(err, msg) == [NoResp EXCEPT !.status = 500, !.error = err, !.message = msg]
Resp200(imgs, id) == [NoResp EXCEPT !.status = 200, !.images = imgs, !.generationId = id]

\* generation ids: request r is given id r; id 0 is never generated
Ids == 0..NumReq

NewReq ==
    [ pc |-> "idle", image |-> Undef, transformation |-> Undef, gid |-> 0,
      submits |-> 0, attempts |-> 0, polls |-> 0,
      termAt |-> 0, seen |-> "none", seenOut |-> "none",
      outcome |-> "none", result |-> Undef, resp |-> NoResp ]

\* a status with no output value to hand back
EmptyOutput(o) == o.k = "undefined" \/ (o.k \in {"array", "object", "string"} /\ o.v = <<>>)

\* the outputs a poll with status st may carry
OutputsOf(st) == IF st = "succeeded" THEN Outputs ELSE {Undef}

\* the first terminal status of the script: succeeded with an output, failed, canceled
IsTerminalPoll(st, out) ==
    \/ st = "succeeded" /\ ~EmptyOutput(out)
    \/ st \in {"failed", "canceled"}

\* what a polled output is worth: nothing, a list with no URL in it, or a
\* list with at least one non-empty, scheme-prefixed string
OutClass(out) ==
    IF EmptyOutput(out) THEN "empty"
    ELSE IF out.k = "array" /\ \E i \in 1..Len(out.v) :
                out.v[i].k = "string" /\ startsWith(out.v[i].v, http)
    THEN "valid" ELSE "invalid"

\* the bookkeeping of one answered status poll: the first terminal status
\* of the script, the status and the output last seen
Polled(q, st, out) ==
    [q EXCEPT !.termAt = IF q.termAt = 0 /\ IsTerminalPoll(st, out) THEN q.polls ELSE q.termAt,
              !.seen = st, !.seenOut = OutClass(out)]

VARIABLES genImpl, streamImpl, req, progressMap, cleanup, stream, log

vars == <<genImpl, streamImpl, req, progressMap, cleanup, stream, log>>

GenImpls == {"run1", "run2", "poll", "relay"}
StreamImpls == {"p001", "p000"}

\* ----------------------------------------------------------- ProgressStore
\* progressMap.get(id) of an id with no entry
NoProgress == [status |-> "undefined", progress |-> 0, message |-> ""]

Progress(st, pr, msg) == [status |-> st, progress |-> pr, message |-> msg]

\* a set that is lost
updateProgress_lost(m, generationId, update) == m

\* a set that only inserts: an id that has a record keeps it
updateProgress_insertOnly(m, generationId, update) ==
    IF m[generationId] = NoProgress THEN [m EXCEPT ![generationId] = update] ELSE m

\* progressMap.set(generationId, update)
updateProgress(m, generationId, update) == [m EXCEPT ![generationId] = update]

\* a get that answers a fresh record for an id with no entry
getProgress_default(m, generationId) ==
    IF m[generationId] = NoProgress THEN Progress("starting", 0, "") ELSE m[generationId]

\* a get that answers some other id's record for an id with no entry
getProgress_fallback(m, generationId) ==
    IF m[generationId] # NoProgress \/ \A h \in DOMAIN m : m[h] = NoProgress
    THEN m[generationId]
    ELSE m[CHOOSE h \in DOMAIN m : m[h] # NoProgress]

\* progressMap.get(generationId)
getProgress(m, generationId) == m[generationId]

\* progressMap.clear() for progressMap.delete(generationId)
clearProgress_all(m, generationId) == [h \in DOMAIN m |-> NoProgress]

\* a delete that removes nothing
clearProgress_kept(m, generationId) == m

\* progressMap.delete(generationId)
clearProgress(m, generationId) == [m EXCEPT ![generationId] = NoProgress]

\* the records a caller of the store may write
Records ==
    { Progress("starting", 0, "Starting image generation..."),
      Progress("generating", 10, "Generating images..."),
      Progress("processing", 50, "Generating images..."),
      Progress("complete", 100, "Generation complete"),
      Progress("error", 100, "Generation timed out") }

\* the exported store functions, called by any job: a job is known here by
\* the id it writes under (gid)
set(g) ==
    /\ \E update \in Records : progressMap' = updateProgress(progressMap, g, update)
    /\ req' = [req EXCEPT ![g].gid = g]
    /\ UNCHANGED <<log, genImpl, streamImpl, cleanup, stream>>

delete(g) ==
    /\ progressMap' = clearProgress(progressMap, g)
    /\ UNCHANGED <<log, genImpl, streamImpl, req, cleanup, stream>>

\* the exported store functions called directly, on any id; log keeps the
\* calls made so far, each with what it was given and what it returned
Call(op, id, update, ret) == [op |-> op, id |-> id, update |-> update, ret |-> ret]

updateProgress_call(g) ==
    /\ Len(log) < MaxCalls
    /\ \E update \in Records :
        /\ progressMap' = updateProgress(progressMap, g, update)
        /\ log' = Append(log, Call("set", g, update, NoProgress))
    /\ UNCHANGED <<genImpl, streamImpl, req, cleanup, stream>>

getProgress_call(g) ==
    /\ Len(log) < MaxCalls
    /\ log' = Append(log, Call("get", g, NoProgress, getProgress(progressMap, g)))
    /\ UNCHANGED <<genImpl, streamImpl, req, progressMap, cleanup, stream>>

clearProgress_call(g) ==
    /\ Len(log) < MaxCalls
    /\ progressMap' = clearProgress(progressMap, g)
    /\ log' = Append(log, Call("delete", g, NoProgress, NoProgress))
    /\ UNCHANGED <<genImpl, streamImpl, req, cleanup, stream>>

\* ------------------------------------------------ POST /generate: the head
\* request.json() and the two validations, the same in every snapshot
Validated(q, image, transformation) ==
    LET got == [q EXCEPT !.image = image, !.transformation = transformation]
    IN  IF MissingFields(image, transformation)
        THEN [got EXCEPT !.pc = "done",
                         !.resp = Resp400("Image and transformation are required")]
        ELSE IF InvalidTransformation(transformation)
        THEN [got EXCEPT !.pc = "done", !.resp = Resp400("Invalid transformation")]
        ELSE [got EXCEPT !.pc = "valid"]

\* ------------------------------------- POST /generate, snapshot "run1"
POST_run1(r) ==
    /\ genImpl = "run1" /\ req[r].pc = "idle"
    /\ \E image \in Images, transformation \in Transformations :
        LET q == Validated(req[r], image, transformation)
        IN  req' = [req EXCEPT ![r] =
                IF q.pc = "done" THEN q
                ELSE [q EXCEPT !.pc = "running", !.submits = q.submits + 1]]
    /\ UNCHANGED <<log, genImpl, streamImpl, progressMap, cleanup, stream>>

\* replicate.run settles: it throws, or its output goes out as it came
POST_run1_settled(r) ==
    /\ genImpl = "run1" /\ req[r].pc = "running"
    /\ \/ req' = [req EXCEPT ![r].pc = "done",
                             ![r].resp = Resp500("Failed to generate images", "")]
       \/ /\ Accepts(req[r].transformation)
          /\ \E output \in Outputs :
                req' = [req EXCEPT ![r].pc = "done", ![r].result = output,
                                   ![r].resp = Resp200(output, 0)]
    /\ UNCHANGED <<log, genImpl, streamImpl, progressMap, cleanup, stream>>

\* ------------------------------------- POST /generate, snapshot "run2"
POST_run2(r) ==
    /\ genImpl = "run2" /\ req[r].pc = "idle"
    /\ \E image \in Images, transformation \in Transformations :
        LET q == Validated(req[r], image, transformation)
        IN  req' = [req EXCEPT ![r] =
                IF q.pc = "done" THEN q
                ELSE [q EXCEPT !.pc = "running", !.submits = q.submits + 1]]
    /\ UNCHANGED <<log, genImpl, streamImpl, progressMap, cleanup, stream>>

\* the response of run2 to an output of replicate.run
run2Response(output) ==
    IF output.k # "array"
    THEN Resp500("Invalid response format from Replicate API", "")
    ELSE IF Len(validOutputs(output)) = 0
    THEN Resp500("No valid images were generated", "")
    ELSE Resp200(Arr(validOutputs(output)), 0)

POST_run2_settled(r) ==
    /\ genImpl = "run2" /\ req[r].pc = "running"
    /\ \/ req' = [req EXCEPT ![r].pc = "done",
                             ![r].resp = Resp500("Failed to generate images", "")]
       \/ /\ Accepts(req[r].transformation)
          /\ \E output \in Outputs :
                req' = [req EXCEPT ![r].pc = "done", ![r].result = output,
                                   ![r].resp = run2Response(output)]
    /\ UNCHANGED <<log, genImpl, streamImpl, progressMap, cleanup, stream>>

\* ------------------------------------- POST /generate, snapshot "poll"
\* <= for <
loopGuard_inclusive(attempts) == attempts <= maxAttempts

\* while (attempts < maxAttempts)
loopGuard(attempts) == attempts < maxAttempts

\* the response of poll to the value waitForPrediction returned
pollResponse(output) ==
    IF Len(imageUrls(output)) = 0
    THEN Resp500("No valid images were generated", "")
    ELSE Resp200(Arr(imageUrls(output)), 0)

\* a client error for the server error
caught_client(msg) == Resp400(msg)

\* the catch (replicateError) block
caught(msg) == Resp500("Failed to generate images", msg)

\* validation, then replicate.predictions.create is called
POST_poll(r) ==
    /\ genImpl = "poll" /\ req[r].pc = "idle"
    /\ \E image \in Images, transformation \in Transformations :
        LET q == Validated(req[r], image, transformation)
        IN  req' = [req EXCEPT ![r] =
                IF q.pc = "done" THEN q
                ELSE [q EXCEPT !.pc = "creating", !.submits = q.submits + 1]]
    /\ UNCHANGED <<log, genImpl, streamImpl, progressMap, cleanup, stream>>

\* create settles: a rejection is caught; otherwise waitForPrediction starts
\* and issues its first predictions.get
POST_poll_created(r) ==
    /\ genImpl = "poll" /\ req[r].pc = "creating"
    /\ \/ req' = [req EXCEPT ![r].pc = "done", ![r].outcome = "submit_threw",
                             ![r].resp = caught("create rejected")]
       \/ /\ Accepts(req[r].transformation)
          /\ loopGuard(0)
          /\ req' = [req EXCEPT ![r].pc = "polling", ![r].attempts = 0,
                                ![r].polls = req[r].polls + 1]
    /\ UNCHANGED <<log, genImpl, streamImpl, progressMap, cleanup, stream>>

\* a loop body without its test for canceled: the loop goes on
waitStep_cancelContinues(q, st, out) ==
    LET p == Polled(q, st, out)
    IN  IF st = "succeeded"
        THEN [p EXCEPT !.pc = "done", !.outcome = "returned", !.result = out,
                       !.resp = pollResponse(out)]
        ELSE IF st = "failed"
        THEN [p EXCEPT !.pc = "done", !.outcome = "raised",
                       !.resp = caught("Prediction failed")]
        ELSE [p EXCEPT !.pc = "delaying"]

\* waitForPrediction: what the loop body does with an answered status
waitStep(q, st, out) ==
    LET p == Polled(q, st, out)
    IN  IF st = "succeeded"
        THEN [p EXCEPT !.pc = "done", !.outcome = "returned", !.result = out,
                       !.resp = pollResponse(out)]
        ELSE IF st = "failed"
        THEN [p EXCEPT !.pc = "done", !.outcome = "raised",
                       !.resp = caught("Prediction failed")]
        ELSE IF st = "canceled"
        THEN [p EXCEPT !.pc = "done", !.outcome = "raised",
                       !.resp = caught("Prediction was canceled")]
        ELSE [p EXCEPT !.pc = "delaying"]

\* predictions.get settles: a rejection is caught by POST; a status is handled
waitForPrediction_get(r) ==
    /\ genImpl = "poll" /\ req[r].pc = "polling"
    /\ \/ req' = [req EXCEPT ![r].pc = "done", ![r].outcome = "poll_threw",
                             ![r].resp = caught("get rejected")]
       \/ \E st \in ExtStatus : \E out \in OutputsOf(st) :
            req' = [req EXCEPT ![r] = waitStep(req[r], st, out)]
    /\ UNCHANGED <<log, genImpl, streamImpl, progressMap, cleanup, stream>>

\* a loop without its attempts++ (polls counted up to maxAttempts)
waitForPrediction_delay_noIncrement(r) ==
    /\ genImpl = "poll" /\ req[r].pc = "delaying"
    /\ req' = [req EXCEPT ![r] =
            [@ EXCEPT !.polls = IF @ < maxAttempts THEN @ + 1 ELSE @, !.pc = "polling"]]
    /\ UNCHANGED <<log, genImpl, streamImpl, progressMap, cleanup, stream>>

\* the 2 s timeout fires: attempts++, then the loop test
waitForPrediction_delay(r) ==
    /\ genImpl = "poll" /\ req[r].pc = "delaying"
    /\ req' = [req EXCEPT ![r] =
            IF loopGuard(req[r].attempts + 1)
            THEN [@ EXCEPT !.attempts = @ + 1, !.polls = @ + 1, !.pc = "polling"]
            ELSE [@ EXCEPT !.attempts = @ + 1, !.pc = "done", !.outcome = "timeout",
                           !.resp = caught("Prediction timed out")]]
    /\ UNCHANGED <<log, genImpl, streamImpl, progressMap, cleanup, stream>>

\* ------------------------------------- POST /generate, snapshot "relay"
\* the share of the attempts begun, without the clamp
attemptProgress_unclamped(attempt) == ((attempt + 1) * 100) \div maxAttempts

\* clamp(attempt / maxAttempts * 100, 0, 100), attempt being the poll's number
attemptProgress(attempt) ==
    LET x == (attempt * 100) \div maxAttempts
    IN  IF x < 0 THEN 0 ELSE IF x > 100 THEN 100 ELSE x

\* output validation: the non-empty, scheme-prefixed strings of the list
validUrls(output) ==
    IF output.k = "array"
    THEN SelectSeq(output.v, LAMBDA u : u.k = "string" /\ Len(u.v) > 0 /\ startsWith(u.v, http))
    ELSE <<>>

\* setTimeout(() => clearProgress(generationId), 5000)
Scheduled == [state |-> "pending", left |-> CleanupDelaySec]

\* the streams open on gid as its job's record turns terminal
Watching(strs, gid) ==
    [s \in Streams |->
        IF strs[s].state = "open" /\ strs[s].id = gid /\ ~strs[s].aborted
        THEN [strs[s] EXCEPT !.watching = TRUE] ELSE strs[s]]

\* steps 1-4: validate, fresh id, seed the store, submit
POST_relay(r) ==
    /\ genImpl = "relay" /\ req[r].pc = "idle"
    /\ \E image \in Images, transformation \in Transformations :
        LET q == Validated(req[r], image, transformation)
        IN  IF q.pc = "done"
            THEN /\ req' = [req EXCEPT ![r] = q]
                 /\ UNCHANGED progressMap
            ELSE /\ req' = [req EXCEPT ![r] =
                        [q EXCEPT !.pc = "creating", !.gid = r, !.submits = q.submits + 1]]
                 /\ progressMap' = updateProgress(progressMap, r,
                        Progress("starting", 0, "Starting image generation..."))
    /\ UNCHANGED <<log, genImpl, streamImpl, cleanup, stream>>

\* the record is marked generating whatever became of the submission
POST_relay_created_marksFirst(r) ==
    /\ genImpl = "relay" /\ req[r].pc = "creating"
    /\ progressMap' = updateProgress(progressMap, req[r].gid,
                            Progress("generating", 10, "Generating images..."))
    /\ \/ /\ req' = [req EXCEPT ![r].pc = "done", ![r].outcome = "submit_threw",
                                ![r].resp = Resp500("Failed to generate images", "submission failed")]
          /\ cleanup' = [cleanup EXCEPT ![r] = Scheduled]
       \/ /\ Accepts(req[r].transformation)
          /\ req' = [req EXCEPT ![r].pc = "polling", ![r].attempts = 0,
                                ![r].polls = req[r].polls + 1]
          /\ UNCHANGED cleanup
    /\ UNCHANGED <<log, genImpl, streamImpl, stream>>

\* steps 4-6: a failed submission is answered 500; otherwise the record is
\* marked generating and the waiter issues its first status poll
POST_relay_created(r) ==
    /\ genImpl = "relay" /\ req[r].pc = "creating"
    /\ \/ /\ req' = [req EXCEPT ![r].pc = "done", ![r].outcome = "submit_threw",
                                ![r].resp = Resp500("Failed to generate images", "submission failed")]
          /\ cleanup' = [cleanup EXCEPT ![r] = Scheduled]
          /\ UNCHANGED progressMap
       \/ /\ Accepts(req[r].transformation)
          /\ req' = [req EXCEPT ![r].pc = "polling", ![r].attempts = 0,
                                ![r].polls = req[r].polls + 1]
          /\ progressMap' = updateProgress(progressMap, req[r].gid,
                                Progress("generating", 10, "Generating images..."))
          /\ UNCHANGED cleanup
    /\ UNCHANGED <<log, genImpl, streamImpl, stream>>

\* a failure that writes the error record and lets the loop go on
relayFail_continues(r, q, pr, msg, how) ==
    /\ req' = [req EXCEPT ![r] = [q EXCEPT !.pc = "delaying"]]
    /\ progressMap' = updateProgress(progressMap, q.gid, Progress("error", pr, msg))
    /\ UNCHANGED <<cleanup, stream>>

\* the waiter's terminal failure: the record turns error, the endpoint
\* answers 500 with the failure's message and schedules the cleanup
relayFail(r, q, pr, msg, how) ==
    /\ req' = [req EXCEPT ![r] =
            [q EXCEPT !.pc = "done", !.outcome = how,
                      !.resp = Resp500("Failed to generate images", msg)]]
    /\ progressMap' = updateProgress(progressMap, q.gid, Progress("error", pr, msg))
    /\ cleanup' = [cleanup EXCEPT ![r] = Scheduled]
    /\ stream' = Watching(stream, q.gid)

\* a status poll is answered (4.2, the state machine)
relay_get(r) ==
    /\ genImpl = "relay" /\ req[r].pc = "polling"
    /\ \E st \in ExtStatus : \E out \in OutputsOf(st) :
        LET q == Polled(req[r], st, out)
            pr == attemptProgress(q.polls)
        IN  CASE st = "succeeded" /\ EmptyOutput(out) ->
                    relayFail(r, q, pr, "Invalid response format", "invalid")
              [] st = "succeeded" /\ ~EmptyOutput(out) /\ Len(validUrls(out)) = 0 ->
                    relayFail(r, q, 100, "No valid images were generated", "invalid")
              [] st = "succeeded" /\ ~EmptyOutput(out) /\ Len(validUrls(out)) > 0 ->
                    /\ req' = [req EXCEPT ![r] =
                            [q EXCEPT !.pc = "done", !.outcome = "returned", !.result = out,
                                      !.resp = Resp200(Arr(validUrls(out)), q.gid)]]
                    /\ progressMap' = updateProgress(progressMap, q.gid,
                            Progress("complete", 100, "Generation complete"))
                    /\ cleanup' = [cleanup EXCEPT ![r] = Scheduled]
                    /\ stream' = Watching(stream, q.gid)
              [] st \in {"failed", "canceled"} ->
                    relayFail(r, q, pr, "Prediction " \o st, "raised")
              [] OTHER ->
                    /\ req' = [req EXCEPT ![r] = [q EXCEPT !.pc = "delaying"]]
                    /\ progressMap' = updateProgress(progressMap, q.gid,
                            Progress(IF st = "processing" THEN "processing" ELSE "generating",
                                     pr, "Generating images..."))
                    /\ UNCHANGED <<cleanup, stream>>
    /\ UNCHANGED <<log, genImpl, streamImpl>>

\* the inter-poll delay is over: next poll, or attempts exhausted
relay_delay(r) ==
    /\ genImpl = "relay" /\ req[r].pc = "delaying"
    /\ IF loopGuard(req[r].attempts + 1)
       THEN /\ req' = [req EXCEPT ![r].attempts = @ + 1, ![r].polls = @ + 1,
                                  ![r].pc = "polling"]
            /\ UNCHANGED <<progressMap, cleanup, stream>>
       ELSE relayFail(r, [req[r] EXCEPT !.attempts = @ + 1], 100,
                      "Generation timed out", "timeout")
    /\ UNCHANGED <<log, genImpl, streamImpl>>

\* the deferred deletion fires
deferredCleanup(r) ==
    /\ cleanup[r].state = "pending" /\ cleanup[r].left = 0
    /\ progressMap' = clearProgress(progressMap, req[r].gid)
    /\ cleanup' = [cleanup EXCEPT ![r].state = "fired"]
    /\ UNCHANGED <<log, genImpl, streamImpl, req, stream>>

\* ------------------------------------------------------- GET /progress
NoId == 0 - 1

NewStream ==
    [ state |-> "idle", id |-> NoId, timer |-> FALSE, left |-> 0, aborted |-> FALSE,
      raised |-> FALSE, pushed |-> {}, nTerminal |-> 0, afterTerminal |-> FALSE,
      ticked |-> FALSE, watching |-> FALSE ]

Terminal == {"complete", "error"}

\* a callback that closes on every status but the first
closesOn_early(impl) ==
    IF impl = "p001" THEN {"generating", "processing", "complete"}
    ELSE {"generating", "processing", "complete", "error"}

\* the statuses on which the interval callback closes the stream
closesOn(impl) == IF impl = "p001" THEN {"complete"} ELSE {"complete", "error"}

\* whether the interval callback also deletes the entry on closing
deletesOnClose(impl) == impl = "p001"

Min2(n) == IF n >= 2 THEN 2 ELSE n

\* what a stream remembers of an event it pushed: its status if terminal
Class(status) == IF status \in Terminal THEN status ELSE "progress"

\* controller.enqueue(progress): raises on a closed controller
enqueue(st, progress) ==
    IF st.state # "open"
    THEN [st EXCEPT !.raised = TRUE]
    ELSE [st EXCEPT !.pushed = @ \cup {Class(progress.status)},
                    !.afterTerminal = @ \/ st.nTerminal > 0,
                    !.nTerminal = IF progress.status \in Terminal THEN Min2(@ + 1) ELSE @]

\* controller.close(): raises on a closed controller
close(st) ==
    IF st.state # "open"
    THEN [st EXCEPT !.raised = TRUE]
    ELSE [st EXCEPT !.state = "closed"]

\* the job of id has answered 200 and its deferred cleanup has not fired
InWindow(id) ==
    \E r \in Req : /\ req[r].gid = id /\ req[r].resp.status = 200
                   /\ cleanup[r].state = "pending"

\* a GET without its if (!generationId): the stream is opened on no id
GET_noIdCheck(s) ==
    /\ stream[s].state = "idle"
    /\ \A t \in Streams : t < s => stream[t].state # "idle"
    /\ \E id \in Ids \cup {NoId} :
        LET opened == [stream[s] EXCEPT !.state = "open", !.id = id, !.timer = TRUE,
                                        !.left = StreamIntervalSec]
        IN  stream' = [stream EXCEPT ![s] =
                IF id # NoId /\ getProgress(progressMap, id) # NoProgress
                THEN enqueue(opened, getProgress(progressMap, id)) ELSE opened]
    /\ UNCHANGED <<log, genImpl, streamImpl, req, progressMap, cleanup>>

\* GET: 400 without an id; otherwise start(controller): the record, if
\* any, is pushed, the interval and the abort listener are set up
GET(s) ==
    /\ stream[s].state = "idle"
    /\ \A t \in Streams : t < s => stream[t].state # "idle"
    /\ \E id \in Ids \cup {NoId} :
        IF id = NoId
        THEN stream' = [stream EXCEPT ![s].state = "rejected"]
        ELSE LET opened == [stream[s] EXCEPT !.state = "open", !.id = id, !.timer = TRUE,
                                             !.left = StreamIntervalSec]
                 initialProgress == getProgress(progressMap, id)
             IN  stream' = [stream EXCEPT ![s] =
                    IF initialProgress # NoProgress
                    THEN enqueue(opened, initialProgress) ELSE opened]
    /\ UNCHANGED <<log, genImpl, streamImpl, req, progressMap, cleanup>>

\* the setInterval callback
GET_interval(s) ==
    /\ stream[s].timer /\ stream[s].left = 0
    /\ LET progress == getProgress(progressMap, stream[s].id)
           rearmed == [stream[s] EXCEPT !.left = StreamIntervalSec, !.ticked = TRUE]
       IN  IF progress = NoProgress
           THEN /\ stream' = [stream EXCEPT ![s] = rearmed]
                /\ UNCHANGED progressMap
           ELSE IF progress.status \in closesOn(streamImpl)
           THEN /\ stream' = [stream EXCEPT ![s] =
                        close([enqueue(rearmed, progress) EXCEPT !.timer = FALSE])]
                /\ progressMap' = IF deletesOnClose(streamImpl)
                                  THEN clearProgress(progressMap, stream[s].id)
                                  ELSE progressMap
           ELSE /\ stream' = [stream EXCEPT ![s] = enqueue(rearmed, progress)]
                /\ UNCHANGED progressMap
    /\ UNCHANGED <<log, genImpl, streamImpl, req, cleanup>>

\* an abort listener without its clearInterval
GET_abort_keepsTimer(s) ==
    /\ stream[s].state \in {"open", "closed"} /\ ~stream[s].aborted
    /\ stream' = [stream EXCEPT ![s] = close([stream[s] EXCEPT !.aborted = TRUE])]
    /\ UNCHANGED <<log, genImpl, streamImpl, req, progressMap, cleanup>>

\* the abort listener: the client disconnected
GET_abort(s) ==
    /\ stream[s].state \in {"open", "closed"} /\ ~stream[s].aborted
    /\ stream' = [stream EXCEPT ![s] =
            close([stream[s] EXCEPT !.aborted = TRUE, !.timer = FALSE])]
    /\ UNCHANGED <<log, genImpl, streamImpl, req, progressMap, cleanup>>

\* ------------------------------------------------------------------- time
\* One second passes. Timers that are due have fired first: an interval
\* callback runs once per second, the deferred cleanup CleanupDelaySec
\* seconds after it was scheduled.
Second ==
    /\ \A s \in Streams : stream[s].timer => stream[s].left > 0
    /\ \A r \in Req : cleanup[r].state = "pending" => cleanup[r].left > 0
    /\ stream' = [s \in Streams |->
            IF stream[s].timer THEN [stream[s] EXCEPT !.left = @ - 1] ELSE stream[s]]
    /\ cleanup' = [r \in Req |->
            IF cleanup[r].state = "pending" THEN [cleanup[r] EXCEPT !.left = @ - 1]
            ELSE cleanup[r]]
    /\ UNCHANGED <<log, genImpl, streamImpl, req, progressMap>>

\* ------------------------------------------------------------------- Init
NoCleanup == [state |-> "none", left |-> 0]

Init ==
    /\ genImpl = "relay"
    /\ streamImpl \in StreamImpls
    /\ req = [r \in Req |-> NewReq]
    /\ progressMap = [g \in Ids |-> NoProgress]
    /\ cleanup = [r \in Req |-> NoCleanup]
    /\ stream = [s \in Streams |-> NewStream]
    /\ log = <<>>

NextRelay ==
    \E r \in Req :
        \/ POST_relay(r) \/ POST_relay_created(r)
        \/ relay_get(r) \/ relay_delay(r)
        \/ deferredCleanup(r)

NextStream ==
    \E s \in Streams : GET(s) \/ GET_interval(s) \/ GET_abort(s)

Next == NextRelay \/ NextStream \/ Second

\* the relay with its progress streams
Spec == Init /\ [][Next]_vars

InitGenerate ==
    /\ genImpl \in GenImpls
    /\ streamImpl = "p000"
    /\ req = [r \in Req |-> NewReq]
    /\ progressMap = [g \in Ids |-> NoProgress]
    /\ cleanup = [r \in Req |-> NoCleanup]
    /\ stream = [s \in Streams |-> NewStream]
    /\ log = <<>>

NextGenerate ==
    \E r \in Req :
        \/ POST_run1(r) \/ POST_run1_settled(r)
        \/ POST_run2(r) \/ POST_run2_settled(r)
        \/ POST_poll(r) \/ POST_poll_created(r)
        \/ waitForPrediction_get(r) \/ waitForPrediction_delay(r)
        \/ POST_relay(r) \/ POST_relay_created(r)
        \/ relay_get(r) \/ relay_delay(r)

\* the relay with one progress stream; timers that are due fire, pending
\* service calls settle, clients open and leave streams as they please
NextCleanup ==
    \/ NextRelay
    \/ GET(1) \/ GET_interval(1) \/ GET_abort(1)
    \/ Second

SpecCleanup == Init /\ [][NextCleanup]_vars

FairCleanup ==
    /\ Init /\ [][NextCleanup]_vars
    /\ WF_vars(NextRelay) /\ WF_vars(GET_interval(1)) /\ WF_vars(Second)

\* one progress stream over a store written and cleared by any caller (other
\* streams and the deferred cleanup reach a stream only through the store)
NextStore ==
    \/ \E g \in Req : set(g) \/ delete(g)
    \/ GET(1) \/ GET_interval(1) \/ GET_abort(1)
    \/ Second

SpecStore == Init /\ [][NextStore]_vars

\* one progress stream, up to its close on a terminal record, and the store
\* functions called on any id (a client's abort reads and writes no entry)
NextIsolation ==
    \/ \E g \in Ids : updateProgress_call(g) \/ clearProgress_call(g)
    \/ GET(1) \/ GET_interval(1)
    \/ Second

SpecIsolation == Init /\ [][NextIsolation]_vars

\* the store alone, under any sequence of calls of its three functions
NextApi ==
    \E g \in Ids : updateProgress_call(g) \/ getProgress_call(g) \/ clearProgress_call(g)

SpecApi == Init /\ [][NextApi]_vars

\* every snapshot of POST /generate, from the request to its response
SpecGenerate == InitGenerate /\ [][NextGenerate]_vars

\* the same, with every pending await settling and every due timeout firing
FairGenerate == SpecGenerate /\ WF_vars(NextGenerate)

\* ================================================================ claims
\* the claim's "non-empty, scheme-prefixed URL string"
IsUrl(x) == x.k = "string" /\ Len(x.v) > 0 /\ startsWith(x.v, http)

\* a list of at least one URL
GoodImages(x) == x.k = "array" /\ Len(x.v) >= 1 /\ \A i \in 1..Len(x.v) : IsUrl(x.v[i])

\* the request passed both validations with a recognized transformation
Recognized(q) ==
    /\ q.pc # "idle" /\ Truthy(q.image)
    /\ q.transformation.k = "string" /\ q.transformation.v \in TransformationKeys

\* C1: a POST /generate with a non-empty image and a recognized transformation
\* is answered by an error or by a 200 whose images are a list of at least one
\* non-empty, scheme-prefixed URL; never by a 200 with an empty images list.
C1_Claim ==
    \A r \in Req :
        Recognized(req[r]) /\ req[r].resp.status = 200 => GoodImages(req[r].resp.images)

\* the request went through waitForPrediction of part_002 and the waiter ended
\* on an answered poll or on the exhausted attempts
WaiterEnded(q) == q.pc = "done" /\ q.outcome \in {"returned", "raised", "timeout"}

\* C2: the waiter stops at the first terminal status of the script (succeeded
\* with a non-empty output, failed, canceled): if poll n <= maxAttempts is the
\* first to return one, the waiter makes exactly n polls, returns that poll's
\* output on succeeded and raises on failed or canceled. A waiter that ended
\* before maxAttempts polls without having seen one made fewer polls than the
\* scripts that go on to a terminal status ask for.
C2_Claim ==
    genImpl = "poll" =>
        \A r \in Req :
            LET q == req[r]
            IN  /\ q.termAt > 0 =>
                    /\ WaiterEnded(q) /\ q.polls = q.termAt
                    /\ q.outcome \in {"returned", "raised"}
                    /\ q.outcome = "returned" => ~EmptyOutput(q.result)
                /\ WaiterEnded(q) /\ q.termAt = 0 => q.polls = maxAttempts

\* C3: with no terminal status ever reported the waiter ends in a timeout
\* failure after exactly maxAttempts polls: no timeout after fewer polls, no
\* poll number maxAttempts + 1, and after the last poll's delay it times out.
C3_Inv ==
    \A r \in Req :
        LET q == req[r]
        IN  /\ q.polls <= maxAttempts
            /\ q.outcome = "timeout" =>
                    /\ q.polls = maxAttempts /\ q.termAt = 0
                    /\ q.pc = "done" /\ q.resp.status = 500

C3_Step ==
    \A r \in Req :
        req[r].pc = "delaying" /\ req[r].polls = maxAttempts /\ req'[r] # req[r]
            => req'[r].outcome = "timeout" /\ req'[r].polls = maxAttempts

\* C3: both parts: the bound on every state, the forced timeout on every step
C3_TimeoutExactlyAtMaxAttempts == [](C3_Inv) /\ [][C3_Step]_vars

C3_Witness ==
    \E r \in Req : genImpl = "poll" /\ req[r].outcome = "timeout" /\ req[r].polls = maxAttempts

\* C4: a poll that returns succeeded with an empty or missing output is a
\* failure: the waiter does not resolve with that output.
C4_Claim ==
    \A r \in Req : req[r].outcome = "returned" => ~EmptyOutput(req[r].result)

\* the waiter of a job with a generation id ended in a terminal failure
WaiterFailed(q) == q.gid # 0 /\ q.pc = "done" /\ q.outcome \in {"raised", "timeout", "invalid"}

\* C5: when the waiter ends in a terminal failure (failed, canceled, timeout,
\* empty or invalid output) the job's record has status error as the 500
\* response is produced.
C5_ErrorRecordedBeforeResponse ==
    \A r \in Req :
        WaiterFailed(req[r]) =>
            /\ req[r].resp.status = 500
            /\ getProgress(progressMap, req[r].gid).status = "error"

C5_Witness ==
    \E r \in Req : /\ WaiterFailed(req[r]) /\ req[r].outcome = "raised"
                   /\ req[r].polls > 1 /\ progressMap[req[r].gid].status = "error"

\* C6: a stream opened on the id of a successful POST /generate, after the
\* response and before the deferred cleanup fires, pushes an event whose status
\* is complete. (After a 200 nothing writes the record again, so a stream that
\* finds no record as it opens is never given one.)
C6_Claim ==
    [][ \A s \in Streams :
            /\ stream[s].state = "idle" /\ stream'[s].state = "open"
            /\ InWindow(stream'[s].id)
            => "complete" \in stream'[s].pushed ]_vars

\* the terminal status the job of id reached
TerminalOf(id) == IF req[id].outcome = "returned" THEN "complete" ELSE "error"

\* C7: every stream open on an id while its job reaches a terminal state, and
\* whose client does not disconnect, pushes a record with that terminal status,
\* each stream on its own, also when another stream closes and deletes the
\* entry on complete: until it has pushed it, the record is there for it to read.
C7_Claim ==
    \A s \in Streams :
        /\ stream[s].watching /\ ~stream[s].aborted
        /\ TerminalOf(stream[s].id) \notin stream[s].pushed
        => getProgress(progressMap, stream[s].id).status = TerminalOf(stream[s].id)

\* no record has been created for the id so far
NeverSeeded(id) == id = 0 \/ (id \in Req /\ req[id].gid = 0)

\* C8: a stream on an id for which no record is ever created pushes nothing,
\* on open or on a later tick, stays open and raises nothing, until its client
\* disconnects.
C8_UnknownIdStaysSilent ==
    \A s \in Streams :
        stream[s].state \in {"open", "closed"} /\ NeverSeeded(stream[s].id) =>
            /\ stream[s].pushed = {}
            /\ ~stream[s].raised
            /\ ~stream[s].aborted => stream[s].state = "open" /\ stream[s].timer

\* the stream on the unknown id has ticked, with records of other ids in the
\* store, and is open and silent
C8_Witness ==
    /\ stream[1].state = "open" /\ stream[1].id = 0 /\ stream[1].ticked
    /\ stream[1].pushed = {} /\ ~stream[1].raised
    /\ \E g \in Req : progressMap[g].status = "complete"

\* the transformation is given and is none of the recognized keys
Unrecognized(q) ==
    /\ q.pc # "idle" /\ Truthy(q.image) /\ Truthy(q.transformation)
    /\ q.transformation.v \notin TransformationKeys

\* C9: a POST /generate whose transformation is not a recognized key is
\* answered 400 and leaves the ProgressStore as it was: no entry is created.
C9_Claim ==
    \A r \in Req :
        Unrecognized(req[r]) =>
            /\ req[r].pc = "done" => req[r].resp.status = 400
            /\ progressMap = [g \in Ids |-> NoProgress]

\* C10: a POST /generate whose image or transformation is missing or empty is
\* answered 400 and creates no job: no generation id, no submission, no poll.
C10_MissingFieldsRejected ==
    \A r \in Req :
        req[r].pc # "idle" /\ (~Truthy(req[r].image) \/ ~Truthy(req[r].transformation)) =>
            /\ req[r].pc = "done" /\ req[r].resp.status = 400
            /\ req[r].gid = 0 /\ req[r].submits = 0 /\ req[r].polls = 0
            /\ progressMap[r] = NoProgress

C10_Witness ==
    \E r \in Req : /\ genImpl = "poll" /\ req[r].pc = "done"
                   /\ req[r].image = emptyStr /\ Truthy(req[r].transformation)
                   /\ req[r].resp.status = 400

\* C11: when the submission to the prediction service fails the request is
\* answered 500 and the waiter is never started for it: no status poll is
\* made, no attempt counted, then or later.
C11_SubmitFailureNoPolling ==
    \A r \in Req :
        req[r].outcome = "submit_threw" =>
            /\ req[r].pc = "done" /\ req[r].resp.status = 500
            /\ req[r].submits = 1 /\ req[r].polls = 0 /\ req[r].attempts = 0

C11_Witness ==
    \E r \in Req : /\ genImpl = "poll" /\ req[r].outcome = "submit_threw"
                   /\ Recognized(req[r]) /\ req[r].resp.status = 500

\* C12: a stream that has pushed a record whose status is complete or error has
\* stopped polling and is closed as of that push, and pushes no event after
\* its first terminal one.
C12_Claim ==
    \A s \in Streams :
        /\ stream[s].nTerminal > 0 => stream[s].state = "closed" /\ ~stream[s].timer
        /\ ~stream[s].afterTerminal

\* the step in which the client of the open stream s disconnects
Disconnects(s) == stream[s].state = "open" /\ ~stream[s].aborted /\ stream'[s].aborted

\* C13: when the client of an open stream disconnects, the stream is closed
\* in that step with its interval released and nothing raised, and from then
\* on every step leaves it so: no tick, no push, whatever the store holds.
C13_AbortStopsStream ==
    [][ \A s \in Streams :
            /\ Disconnects(s) =>
                    /\ stream'[s].state = "closed" /\ ~stream'[s].timer
                    /\ stream'[s].raised = stream[s].raised
                    /\ stream'[s].pushed = stream[s].pushed
                    /\ stream'[s].nTerminal = stream[s].nTerminal
            /\ stream[s].aborted => stream'[s] = stream[s] ]_vars

\* the stream was open and had pushed no terminal record as its client left;
\* the record of its id has since turned complete and was not pushed
C13_Witness ==
    /\ stream[1].aborted /\ stream[1].state = "closed" /\ ~stream[1].raised
    /\ stream[1].id \in Req /\ stream[1].ticked
    /\ stream[1].pushed = {"progress"}
    /\ progressMap[stream[1].id].status = "complete"

\* a response is there exactly when the handler has returned
C14_Inv ==
    \A r \in Req :
        /\ req[r].pc = "done" <=> req[r].resp.status \in {200, 400, 500}
        /\ req[r].pc # "done" => req[r].resp = NoResp
        /\ req[r].polls <= maxAttempts

\* a request that was answered is never answered again
C14_Step ==
    \A r \in Req : req[r].resp # NoResp => req'[r] = req[r]

C15_EventualCleanup ==
    \A g \in Req : (progressMap[g] # NoProgress) ~> [](progressMap[g] = NoProgress)

\* the deferred deletion has removed the record of a failed job on whose id no
\* stream was ever opened
C15_Witness ==
    \E r \in Req : /\ req[r].gid = r /\ req[r].outcome = "timeout"
                   /\ cleanup[r].state = "fired" /\ progressMap[r] = NoProgress
                   /\ stream[1].state = "idle"

\* what the calls of l leave under id: the record of the last set(id, ...) of
\* l if no delete(id) follows it, nothing otherwise
RECURSIVE LastWrite(_, _)
LastWrite(l, id) ==
    IF l = <<>> THEN NoProgress
    ELSE LET e == l[Len(l)]
         IN  IF e.id = id /\ e.op = "set" THEN e.update
             ELSE IF e.id = id /\ e.op = "delete" THEN NoProgress
             ELSE LastWrite(SubSeq(l, 1, Len(l) - 1), id)

\* the calls made before call number i
Before(i) == SubSeq(log, 1, i - 1)

\* before call number i, id was never set, or was deleted after its last set
NeverSetOrDeleted(i, id) ==
    \A j \in 1..(i - 1) :
        log[j].id = id /\ log[j].op = "set" =>
            \E k \in (j + 1)..(i - 1) : log[k].id = id /\ log[k].op = "delete"

\* C16: a get on an id that was never set, or was deleted after its last set,
\* returns absent, after any sequence of set, get and delete calls: every such
\* get made so far did, and one made now would.
C16_GetAbsent ==
    /\ \A i \in 1..Len(log) :
            log[i].op = "get" /\ NeverSetOrDeleted(i, log[i].id) => log[i].ret = NoProgress
    /\ \A id \in Ids :
            NeverSetOrDeleted(Len(log) + 1, id) => getProgress(progressMap, id) = NoProgress

\* set, then delete, then get, all on one id
C16_Witness ==
    /\ Len(log) = 3
    /\ log[1].op = "set" /\ log[2].op = "delete" /\ log[3].op = "get"
    /\ log[1].id = log[3].id /\ log[2].id = log[3].id
    /\ log[3].ret = NoProgress

\* C17: last write wins, one record per id: every get returns the record of
\* the most recent set of its id if no delete of that id followed, absent
\* otherwise; so a set changes no other id's record, and each set took effect.
C17_LastWriteWins ==
    /\ \A i \in 1..Len(log) :
            log[i].op = "get" => log[i].ret = LastWrite(Before(i), log[i].id)
    /\ \A id \in Ids : getProgress(progressMap, id) = LastWrite(log, id)

\* two sets of one id with different records, then a get that returns the second
C17_Witness ==
    /\ Len(log) = 3
    /\ log[1].op = "set" /\ log[2].op = "set" /\ log[3].op = "get"
    /\ log[1].id = log[2].id /\ log[2].id = log[3].id
    /\ log[1].update # log[2].update /\ log[3].ret = log[2].update

\* the store as it was before the last call
StoreBefore == [id \in Ids |-> LastWrite(Before(Len(log)), id)]

\* C18: delete(id) removes the record of id if there is one and changes
\* nothing if there is none, leaves every other id's record as it was, and a
\* second delete(id) changes nothing more.
C18_DeleteIdempotent ==
    /\ Len(log) > 0 /\ log[Len(log)].op = "delete" =>
            /\ progressMap[log[Len(log)].id] = NoProgress
            /\ \A id \in Ids \ {log[Len(log)].id} : progressMap[id] = StoreBefore[id]
            /\ StoreBefore[log[Len(log)].id] = NoProgress => progressMap = StoreBefore
    /\ \A id \in Ids :
            clearProgress(clearProgress(progressMap, id), id) = clearProgress(progressMap, id)

\* two records in the store, then one of them is deleted
C18_Witness ==
    /\ Len(log) = 3
    /\ log[1].op = "set" /\ log[2].op = "set" /\ log[3].op = "delete"
    /\ log[1].id # log[2].id /\ log[3].id = log[2].id
    /\ progressMap[log[1].id] = log[1].update /\ progressMap[log[2].id] = NoProgress

\* the request of stream s has arrived and carried no id
WithoutId(s) == stream[s].state # "idle" /\ stream[s].id = NoId

\* C19: a GET /progress without an id is answered 400 and opens no stream:
\* no interval, no abort listener, no tick and no event, then or later.
C19_MissingIdRejected ==
    \A s \in Streams :
        WithoutId(s) => stream[s] = [NewStream EXCEPT !.state = "rejected"]

\* the request without an id was rejected, with a terminal record in the store
C19_Witness ==
    /\ stream[1].state = "rejected" /\ stream[1].id = NoId /\ stream[1].pushed = {}
    /\ \E g \in Req : progressMap[g].status \in Terminal

\* C20: the stream endpoint never raises: in every interleaving of ticks, a
\* close on a terminal record and a client abort, also an abort that arrives
\* after that close, no enqueue and no close is made on a closed stream.
C20_Claim ==
    \A s \in Streams : ~stream[s].raised

\* C21: terminal records are absorbing: once the record of an id has status
\* complete or error, a step leaves it as it is or deletes it; no write gives
\* the id a non-terminal status or another status.
C21_TerminalAbsorbing ==
    [][ \A g \in Ids :
            progressMap[g].status \in Terminal =>
                progressMap'[g] \in {progressMap[g], NoProgress} ]_vars

\* the error record of a failed job has been in the store for a while, read
\* by a stream's ticks, with the deferred deletion still pending
C21_Witness ==
    \E r \in Req : /\ progressMap[r].status = "error" /\ req[r].polls > 1
                   /\ cleanup[r].state = "pending" /\ cleanup[r].left < CleanupDelaySec
                   /\ stream[1].id = r /\ stream[1].ticked

\* C22: with one request and one waiter, the progress values written under a
\* generation id never decrease: from the seed {starting, 0} through
\* {generating, 10} and every polling update to the terminal record.
C22_Claim ==
    [][ \A g \in Ids :
            progressMap[g] # NoProgress /\ progressMap'[g] # NoProgress =>
                progressMap'[g].progress >= progressMap[g].progress ]_vars

\* C23: every record held in the store has a progress value within [0, 100]:
\* the attempt-derived value of every poll from the first to the last, and
\* the 0, 10 and 100 of the seed and terminal records.
C23_ProgressInRange ==
    /\ \A g \in Ids : progressMap[g].progress >= 0 /\ progressMap[g].progress <= 100
    /\ \A r \in Req :
            req[r].gid # 0 /\ req[r].pc = "delaying" =>
                progressMap[req[r].gid].progress = attemptProgress(req[r].polls)

\* the record written on the last poll, whose attempt-derived value is 100
C23_Witness ==
    \E r \in Req : /\ req[r].gid # 0 /\ req[r].pc = "delaying" /\ req[r].polls = maxAttempts
                   /\ progressMap[req[r].gid].status = "processing"
                   /\ progressMap[req[r].gid].progress = 100

\* the records of steps 3 and 5
Seed == Progress("starting", 0, "Starting image generation...")
Marked == Progress("generating", 10, "Generating images...")

\* C24: the endpoint orders its writes around the submission: while the
\* submission is in flight the record of the fresh id is {starting, 0} and no
\* poll was made; while the first poll is in flight the record is
\* {generating, 10}; after a failed submission the record is still the seed
\* and no poll was made.
C24_WritesAroundSubmission ==
    \A r \in Req :
        req[r].gid # 0 =>
            /\ req[r].pc = "creating" =>
                    /\ progressMap[req[r].gid] = Seed
                    /\ req[r].submits = 1 /\ req[r].polls = 0
            /\ req[r].pc = "polling" /\ req[r].polls = 1 => progressMap[req[r].gid] = Marked
            /\ req[r].outcome = "submit_threw" =>
                    progressMap[req[r].gid] = Seed /\ req[r].polls = 0

\* a submission that failed, for a request with a recognized transformation
C24_Witness ==
    \E r \in Req : /\ req[r].gid # 0 /\ req[r].outcome = "submit_threw"
                   /\ Recognized(req[r]) /\ progressMap[req[r].gid] = Seed

\* the record the waiter leaves when its attempts are exhausted
TimedOut == Progress("error", 100, "Generation timed out")

\* C25: when the waiter has made maxAttempts polls without seeing a terminal
\* status, it leaves the job's record as {error, 100, "Generation timed out"}
\* and raises a failure whose message is the one the 500 response carries.
C25_TimeoutRecord ==
    \A r \in Req :
        req[r].outcome = "timeout" =>
            /\ req[r].polls = maxAttempts /\ req[r].termAt = 0
            /\ req[r].resp.status = 500
            /\ req[r].gid # 0 =>
                    /\ progressMap[req[r].gid] = TimedOut
                    /\ req[r].resp.message = TimedOut.message
            /\ req[r].gid = 0 => req[r].resp.message = "Prediction timed out"

\* a job with a generation id ran out of attempts
C25_Witness ==
    \E r \in Req : /\ req[r].gid # 0 /\ req[r].outcome = "timeout"
                   /\ req[r].attempts = maxAttempts /\ progressMap[req[r].gid] = TimedOut

\* the local status the claim gives to a polled external status
Local(st) ==
    CASE st = "processing" -> "processing"
      [] st = "succeeded" -> "complete"
      [] st \in {"failed", "canceled"} -> "error"
      [] OTHER -> "generating"

\* the record of q's job is the one written for the status last seen
RecordOfLastSeen(q) == q.gid # 0 /\ q.outcome # "timeout"

\* what C26 says of every status but succeeded: failed and canceled end the
\* waiter in error, anything else is processing or generating and the loop
\* goes on to the next poll, one attempt per poll
C26_Rest(q) ==
    /\ q.seen \in {"failed", "canceled"} =>
            /\ q.pc = "done" /\ q.outcome = "raised"
            /\ q.gid # 0 => progressMap[q.gid].status = Local(q.seen)
    /\ q.seen \in {"starting", "processing"} =>
            /\ q.pc \in {"delaying", "polling"} \/ q.outcome \in {"timeout", "poll_threw"}
            /\ RecordOfLastSeen(q) => progressMap[q.gid].status = Local(q.seen)
    /\ q.pc \in {"polling", "delaying"} => q.polls = q.attempts + 1

Survivors(list) == SelectSeq(list.v, IsUrl)

\* C27: for every terminal output list, the images of the response are exactly
\* the list's non-empty, scheme-prefixed strings, in their order; when none
\* survives the response is the failure "No valid images were generated".
C27_Claim ==
    \A r \in Req :
        req[r].pc = "done" /\ req[r].result.k = "array" =>
            IF Len(Survivors(req[r].result)) > 0
            THEN /\ req[r].resp.status = 200
                 /\ req[r].resp.images = Arr(Survivors(req[r].result))
            ELSE /\ req[r].resp.status = 500
                 /\ req[r].resp.error = "No valid images were generated"

\* C28: a stream pushes at most one event with a terminal status over its
\* lifetime, also when the record is terminal as the stream opens and is
\* pushed on open.
C28_Claim ==
    \A s \in Streams : stream[s].nTerminal <= 1

\* C29: no resurrection: once the entry of a seeded id is gone, deleted by a
\* stream on complete or by the deferred cleanup, every step leaves it absent:
\* no write re-creates it, and a second delete changes nothing.
C29_NoResurrection ==
    [][ \A g \in Req :
            req[g].gid = g /\ progressMap[g] = NoProgress => progressMap'[g] = NoProgress ]_vars

\* the stream closed on complete and deleted the entry; the deferred deletion
\* fired after it, on the absent entry
C29_Witness ==
    \E r \in Req :
        /\ streamImpl = "p001" /\ stream[1].id = r /\ stream[1].state = "closed"
        /\ ~stream[1].aborted /\ "complete" \in stream[1].pushed
        /\ req[r].gid = r /\ cleanup[r].state = "fired" /\ progressMap[r] = NoProgress

\* the step is a call of a store function on id g, made for the job of g
CallOn(g) == Len(log') > Len(log) /\ log'[Len(log')].id = g

\* the step is one of the handler of a stream open on g
StreamOn(g) == \E s \in Streams : stream'[s] # stream[s] /\ stream'[s].id = g

\* C30: jobs are isolated by id: a step changes the entry of g only if it is a
\* write or delete made for g or a step of a stream open on g, and an event a
\* stream pushes is the record held under the stream's own id.
C30_IsolatedById ==
    [][ /\ \A g \in Ids :
                progressMap'[g] # progressMap[g] => CallOn(g) \/ StreamOn(g)
        /\ \A s \in Streams :
                stream'[s].pushed # stream[s].pushed =>
                    /\ getProgress(progressMap, stream'[s].id) # NoProgress
                    /\ stream'[s].pushed = stream[s].pushed
                            \cup {Class(getProgress(progressMap, stream'[s].id).status)} ]_vars

\* two ids hold different records; the stream on one of them has pushed its
\* terminal record and closed, and the other id's record is still there
C30_Witness ==
    \E g, h \in Ids :
        /\ g # h /\ stream[1].id = g /\ stream[1].state = "closed" /\ ~stream[1].aborted
        /\ "complete" \in stream[1].pushed /\ "error" \notin stream[1].pushed
        /\ progressMap[h].status = "error"

====
